---- MODULE Spec2Model ----
(***************************************************************************)
(* MainOrchestrator (src/orchestrator/main_orchestrator.py): the request   *)
(* pipeline process_request, its keyword classifier, the context fusion    *)
(* and confidence boost of synthesize_response.                            *)
(*                                                                         *)
(* A coroutine runs from one await to the next in one step: every action   *)
(* below is "the reply of the outstanding call arrives, and the code runs  *)
(* on until it issues the next call or returns".                           *)
(*                                                                         *)
(* JSON values are tagged records: [str |-> s], [list |-> l], [num |-> n], *)
(* [null |-> TRUE].  Query texts are sequences of one-character strings    *)
(* (the classifier indexes them); response texts are TLA+ strings.         *)
(* Confidences are integers in hundredths.                                 *)
(***************************************************************************)
EXTENDS Integers, Sequences, FiniteSets, TLC

(* ------------------------------ bounds --------------------------------- *)
MaxItems == 4        \* longest list the scraping agent returns
MaxStocks == 1       \* longest list the API agent returns
MaxChunks == 2       \* longest list the retriever agent returns
MaxTextLen == 4      \* longest text of the classifier specification
ConfMax == 100       \* largest base confidence (hundredths) of SpecBoost

(* ------------------------- program constants --------------------------- *)
ConfidenceThreshold == 70    \* self.confidence_threshold = 0.7
BoostCap == 95               \* min(0.95, ...)
BoostStep == 10              \* ... + 0.1
\* a default one boost below the threshold
DefaultConfidenceNearThreshold == ConfidenceThreshold - BoostStep
DefaultConfidence == 50      \* result.get("confidence", 0.5)
TopScraped == 3              \* news_data[:3], earnings_data[:3]
TopK == 5                    \* "top_k": 5
VoiceRate == 150             \* "voice_rate": 150
StatusOK == 200              \* response.status_code == 200

(* ---------------------------- JSON values ------------------------------ *)
JStr(s) == [str |-> s]
JList(l) == [list |-> l]
JNum(n) == [num |-> n]
JNull == [null |-> TRUE]
JDict(d) == [dict |-> d]

IsStr(v) == "str" \in DOMAIN v
IsList(v) == "list" \in DOMAIN v
IsNum(v) == "num" \in DOMAIN v
IsDict(v) == "dict" \in DOMAIN v

\* Python truthiness: None, 0, "" and empty containers are false.
Truthy(v) ==
    IF IsList(v) THEN Len(v.list) > 0
    ELSE IF IsStr(v) THEN Len(v.str) > 0
    ELSE IF IsNum(v) THEN v.num # 0
    ELSE IF IsDict(v) THEN DOMAIN v.dict # {}
    ELSE FALSE

(* ------------------------------- texts --------------------------------- *)
UpperCase == <<"A","B","C","D","E","F","G","H","I","J","K","L","M",
               "N","O","P","Q","R","S","T","U","V","W","X","Y","Z">>
LowerCase == <<"a","b","c","d","e","f","g","h","i","j","k","l","m",
               "n","o","p","q","r","s","t","u","v","w","x","y","z">>

lower_char(c) ==
    IF \E i \in DOMAIN UpperCase : UpperCase[i] = c
    THEN LowerCase[CHOOSE i \in DOMAIN UpperCase : UpperCase[i] = c]
    ELSE c

\* str.lower()
lower(s) == [i \in DOMAIN s |-> lower_char(s[i])]

\* keyword in text
contains(text, keyword) ==
    \E i \in 1..(Len(text) - Len(keyword) + 1) :
        SubSeq(text, i, i + Len(keyword) - 1) = keyword

news_keywords == {
    <<"n","e","w","s">>,
    <<"h","e","a","d","l","i","n","e","s">>,
    <<"l","a","t","e","s","t">>,
    <<"b","r","e","a","k","i","n","g">>,
    <<"a","n","n","o","u","n","c","e","m","e","n","t","s">>,
    <<"r","e","p","o","r","t","s">> }

earnings_keywords == {
    <<"e","a","r","n","i","n","g","s">>,
    <<"q","u","a","r","t","e","r","l","y">>,
    <<"r","e","s","u","l","t","s">>,
    <<"p","r","o","f","i","t">>,
    <<"r","e","v","e","n","u","e">>,
    <<"e","p","s">> }

\* the same test without .lower()
is_news_query_nolower(query) ==
    \E keyword \in news_keywords : contains(query, keyword)

is_news_query(query) ==
    \E keyword \in news_keywords : contains(lower(query), keyword)

is_earnings_query(query) ==
    \E keyword \in earnings_keywords : contains(lower(query), keyword)

\* a substitute text that happens to contain a keyword
VoiceErrorTextResults ==
    <<"N","o"," ","r","e","s","u","l","t","s"," ","f","r","o","m"," ",
      "v","o","i","c","e"," ","i","n","p","u","t">>

VoiceErrorText ==
    <<"E","r","r","o","r"," ","p","r","o","c","e","s","s","i","n","g"," ",
      "v","o","i","c","e"," ","i","n","p","u","t">>

FallbackMsg == "I need more specific information to provide an accurate response. Could you please clarify your question?"
ErrorGenerating == "Error generating response"
ErrorConnecting == "Error connecting to language agent"
ErrorPrefix == "Error processing request: "

(* --------------------------- data of the runs -------------------------- *)
Item(prefix, i) == prefix \o ToString(i)

\* the second scraped item of every list lacks a field, which .get() defaults
NewsItem(i) ==
    IF i = 2 THEN [source |-> Item("site", i)]
    ELSE [title |-> Item("headline", i), source |-> Item("site", i)]
EarningsItem(i) ==
    IF i = 2 THEN [company |-> Item("corp", i)]
    ELSE [company |-> Item("corp", i), estimate |-> i, actual |-> i + 1]
Chunk(i) == [text |-> Item("passage", i), source |-> Item("doc", i)]
Stock(i) == [symbol |-> Item("sym", i)]

Prefixes(items) == { SubSeq(items, 1, k) : k \in 0..Len(items) }

Q_empty == << >>
Q_blank == <<" ", " ">>
Q_none == <<"h","i">>
Q_news == <<"N","E","W","S">>
Q_earn == <<"p","r","o","f","i","t">>
Q_both == <<"L","a","t","e","s","t"," ","E","P","S">>

Queries == {Q_empty, Q_none, Q_news, Q_earn, Q_both}
Transcripts == {Q_none, Q_both}
AudioFiles == {JNull, JStr("in.wav")}
\* every query in text mode; in voice mode an empty and a keyword query
\* without audio, and with audio one query that differs from every transcript
Requests ==
    [query : Queries, mode : {"text"}, audio_file : AudioFiles]
    \cup [query : {Q_empty, Q_news}, mode : {"voice"}, audio_file : {JNull}]
    \cup [query : {Q_news}, mode : {"voice"}, audio_file : {JStr("in.wav")}]

\* a reply of a collaborator: no reply at all (connection error, timeout),
\* or an HTTP reply with a status code and a JSON body
NetErr == [kind |-> "neterr"]
Http(status, body) == [kind |-> "http", status |-> status, body |-> body]
NoBody == JDict([detail |-> JNull])
Failures == {NetErr, Http(500, NoBody)}

\* replies of a list-valued call: failures, the prefixes of a list, a body
\* without the field and bodies whose field is no list
ListReplies(key, items, others) ==
    Failures
    \cup { Http(StatusOK, JDict([k \in {key} |-> JList(l)])) : l \in Prefixes(items) }
    \cup { Http(StatusOK, NoBody) }
    \cup { Http(StatusOK, JDict([k \in {key} |-> v])) : v \in others }

SpeechReplies ==
    Failures
    \cup { Http(StatusOK, JDict([text |-> JStr(q)])) : q \in Transcripts }
    \cup { Http(StatusOK, NoBody), Http(StatusOK, JDict([text |-> JList(<< >>)])) }
MarketReplies == ListReplies("data", [i \in 1..MaxStocks |-> Stock(i)], {JNum(7)})
NewsReplies == ListReplies("data", [i \in 1..MaxItems |-> NewsItem(i)], {JNum(7), JNull})
EarningsReplies == ListReplies("data", [i \in 1..MaxItems |-> EarningsItem(i)], {JNum(7), JNull})
RetrieveReplies == ListReplies("chunks", [i \in 1..MaxChunks |-> Chunk(i)], {JNum(7)})

BaseConfidences == {0, 60, 70, 90, 100}
SynthesisReplies ==
    Failures
    \cup { Http(StatusOK, JDict([response |-> JStr("answer"), confidence |-> JNum(c)])) :
             c \in BaseConfidences }
    \cup { Http(StatusOK, JDict([response |-> JStr("answer")])),
           Http(StatusOK, JDict([confidence |-> JNum(90)])),
           Http(StatusOK, JDict([response |-> JList(<< >>), confidence |-> JNum(90)])),
           Http(StatusOK, JDict([response |-> JStr("answer"), confidence |-> JStr("high")])),
           Http(StatusOK, JList(<< >>)) }
\* the voice agent names a new file in every reply: handle is the one of this call
VoiceReplies(handle) ==
    Failures
    \cup { Http(StatusOK, JDict([audio_file |-> JStr(handle)])),
           Http(StatusOK, NoBody),
           Http(StatusOK, JDict([audio_file |-> JList(<< >>)])) }

(* ------------------- synthesize_response: pure parts ------------------- *)
Get(d, key, default) == IF key \in DOMAIN d THEN d[key] ELSE default
TakeAll(l, n) == l                \* a slice that does not cut
Take(l, n) == SubSeq(l, 1, IF Len(l) < n THEN Len(l) ELSE n)
Min(a, b) == IF a < b THEN a ELSE b

news_chunk(news) ==
    [text |-> "Latest News - " \o Get(news, "title", "") \o ": " \o Get(news, "source", ""),
     source |-> "scraped_news"]

earnings_chunk(earnings) ==
    [text |-> "Earnings Update - " \o Get(earnings, "company", "")
              \o ": Expected " \o ToString(Get(earnings, "estimate", 0))
              \o ", Actual " \o ToString(Get(earnings, "actual", 0)),
     source |-> "scraped_earnings"]

\* a scraped value that is true in Python but is no list of records makes the
\* loop raise; so does adding a non-list context to a list
FuseRaises(context, news_data, earnings_data) ==
    \/ Truthy(news_data) /\ ~IsList(news_data)
    \/ Truthy(earnings_data) /\ ~IsList(earnings_data)
    \/ ~IsList(context)

additional_context(news_data, earnings_data) ==
    (IF Truthy(news_data)
        THEN [i \in 1..Len(Take(news_data.list, TopScraped)) |-> news_chunk(news_data.list[i])]
        ELSE << >>)
    \o
    (IF Truthy(earnings_data)
        THEN [i \in 1..Len(Take(earnings_data.list, TopScraped)) |->
                earnings_chunk(earnings_data.list[i])]
        ELSE << >>)

all_context(context, news_data, earnings_data) ==
    context.list \o additional_context(news_data, earnings_data)

SynthesisFailed(text) == JDict([response |-> JStr(text), confidence |-> JNum(0)])

boosted_uncapped(base) == base + BoostStep      \* the boost without min()
boosted(base) == Min(BoostCap, base + BoostStep)

\* the boost applied to the substituted result as well
synthesis_result_boost_all(reply, news_data, earnings_data) ==
    LET result == IF reply.kind = "neterr" THEN SynthesisFailed(ErrorConnecting)
                  ELSE IF reply.status # StatusOK THEN SynthesisFailed(ErrorGenerating)
                  ELSE reply.body IN
    IF Truthy(news_data) \/ Truthy(earnings_data)
    THEN IF ~IsDict(result) THEN SynthesisFailed(ErrorConnecting)
         ELSE LET c == Get(result.dict, "confidence", JNum(DefaultConfidence)) IN
              IF ~IsNum(c) THEN SynthesisFailed(ErrorConnecting)
              ELSE JDict([k \in DOMAIN result.dict \cup {"confidence"} |->
                            IF k = "confidence" THEN JNum(boosted(c.num))
                            ELSE result.dict[k]])
    ELSE result

\* lines 185-193: what synthesize_response returns for a reply of the call
synthesis_result(reply, news_data, earnings_data) ==
    IF reply.kind = "neterr" THEN SynthesisFailed(ErrorConnecting)
    ELSE IF reply.status # StatusOK THEN SynthesisFailed(ErrorGenerating)
    ELSE LET result == reply.body IN
         IF Truthy(news_data) \/ Truthy(earnings_data)
         THEN IF ~IsDict(result) THEN SynthesisFailed(ErrorConnecting)
              ELSE LET c == Get(result.dict, "confidence", JNum(DefaultConfidence)) IN
                   IF ~IsNum(c) THEN SynthesisFailed(ErrorConnecting)
                   ELSE JDict([k \in DOMAIN result.dict \cup {"confidence"} |->
                                 IF k = "confidence" THEN JNum(boosted(c.num))
                                 ELSE result.dict[k]])
         ELSE result

(* ------------------------------- state --------------------------------- *)
VARIABLES
    agents,                \* self.agents
    confidence_threshold,  \* self.confidence_threshold, in hundredths
    request,               \* the OrchestratorRequest being processed
    pc,                    \* "idle", the call awaited, or "done"
    query_text, market_data, news_data, earnings_data, context_chunks,
    synthesis_response, response_text, confidence, audio_file,
                           \* the locals of process_request
    inflight,              \* the calls awaiting a reply
    calls,                 \* the outbound calls issued so far, with arguments
    replies,               \* the replies received so far
    returned,              \* the OrchestratorResponse returned, JNull before
    fn_arg, fn_out         \* argument and result of a function applied on its own

vars == <<agents, confidence_threshold, request, pc, query_text, market_data,
          news_data, earnings_data, context_chunks, synthesis_response,
          response_text, confidence, audio_file, inflight, calls, replies,
          returned, fn_arg, fn_out>>

Agents == [api |-> "http://localhost:8001", scraping |-> "http://localhost:8002",
           retriever |-> "http://localhost:8003", analysis |-> "http://localhost:8004",
           language |-> "http://localhost:8005", voice |-> "http://localhost:8006"]

\* self and the coroutine's frame as one record, so that the code between two awaits
\* composes as functions from frame to frame
Frame ==
    [agents |-> agents, confidence_threshold |-> confidence_threshold,
     request |-> request, pc |-> pc, query_text |-> query_text, market_data |-> market_data,
     news_data |-> news_data, earnings_data |-> earnings_data,
     context_chunks |-> context_chunks, synthesis_response |-> synthesis_response,
     response_text |-> response_text, confidence |-> confidence,
     audio_file |-> audio_file, inflight |-> inflight, calls |-> calls,
     returned |-> returned]

Resume(f) ==
    /\ agents' = f.agents
    /\ confidence_threshold' = f.confidence_threshold
    /\ request' = f.request
    /\ pc' = f.pc
    /\ query_text' = f.query_text
    /\ market_data' = f.market_data
    /\ news_data' = f.news_data
    /\ earnings_data' = f.earnings_data
    /\ context_chunks' = f.context_chunks
    /\ synthesis_response' = f.synthesis_response
    /\ response_text' = f.response_text
    /\ confidence' = f.confidence
    /\ audio_file' = f.audio_file
    /\ inflight' = f.inflight
    /\ calls' = f.calls
    /\ returned' = f.returned

\* the coroutine suspends on a call that was never sent
AwaitUnsent(f, op, arg) ==
    [f EXCEPT !.pc = op,
              !.calls = Append(@, [op |-> op, arg |-> arg])]

\* await client.get/post(...): the call goes out and the coroutine suspends
Await(f, op, arg) ==
    [f EXCEPT !.pc = op,
              !.calls = Append(@, [op |-> op, arg |-> arg]),
              !.inflight = @ \cup {op}]

\* a call that is fired and never awaited
NotAwaited(f) == f

\* the reply of the awaited call has arrived
Replied(f) == [f EXCEPT !.inflight = @ \ {f.pc}]

Return(f, response) == [f EXCEPT !.pc = "done", !.returned = response]

(* --------------------------- process_request --------------------------- *)
\* a handler that does not embed the exception's message
ErrorResponseBare(message) ==
    [response |-> "Error processing request", confidence |-> 0,
     audio_file |-> JNull, status |-> "error"]

\* lines 78-83
ErrorResponse(message) ==
    [response |-> ErrorPrefix \o message, confidence |-> 0,
     audio_file |-> JNull, status |-> "error"]

\* without the handler of lines 78-83 the exception leaves process_request
Propagate(f, message) == [f EXCEPT !.pc = "raised"]

Raise(f, message) == Return(f, ErrorResponse(message))

\* a response that leaves a trace on self: the threshold rises with every answer
RespondAdaptive(f) ==
    IF IsStr(f.response_text) /\ (IsStr(f.audio_file) \/ f.audio_file = JNull)
    THEN Return([f EXCEPT !.confidence_threshold = @ + 10],
                [response |-> f.response_text.str, confidence |-> f.confidence.num,
                 audio_file |-> f.audio_file, status |-> "success"])
    ELSE Raise(f, "validation error for OrchestratorResponse")

\* lines 71-76: OrchestratorResponse validates its fields
Respond(f) ==
    IF IsStr(f.response_text) /\ (IsStr(f.audio_file) \/ f.audio_file = JNull)
    THEN Return(f, [response |-> f.response_text.str, confidence |-> f.confidence.num,
                    audio_file |-> f.audio_file, status |-> "success"])
    ELSE Raise(f, "validation error for OrchestratorResponse")

\* a fallback that leaves the synthesized text in place
FallbackKeepsText(f) == Respond(f)

\* lines 65-69, after the fallback speech (if any) was generated
Fallback(f) == Respond([f EXCEPT !.response_text = JStr(FallbackMsg)])

\* "<=" instead of "<" on line 65
Step7_le(f) ==
    IF ~IsNum(f.confidence)
    THEN Raise(f, "'<' not supported between instances of 'str' and 'float'")
    ELSE IF f.confidence.num <= f.confidence_threshold
    THEN IF f.request.mode = "voice"
         THEN Await(f, "tts_fallback", [text |-> JStr(FallbackMsg), voice_rate |-> VoiceRate])
         ELSE Fallback(f)
    ELSE Respond(f)

\* lines 64-76
Step7(f) ==
    IF ~IsNum(f.confidence)
    THEN Raise(f, "'<' not supported between instances of 'str' and 'float'")
    ELSE IF f.confidence.num < f.confidence_threshold
    THEN IF f.request.mode = "voice"
         THEN Await(f, "tts_fallback", [text |-> JStr(FallbackMsg), voice_rate |-> VoiceRate])
         ELSE Fallback(f)
    ELSE Respond(f)

\* the answer is spoken whenever the request carries an audio handle
Step6_audio(f) ==
    LET sr == f.synthesis_response IN
    IF ~IsDict(sr) THEN Raise(f, "list indices must be integers or slices, not str")
    ELSE IF "response" \notin DOMAIN sr.dict THEN Raise(f, "'response'")
    ELSE IF "confidence" \notin DOMAIN sr.dict THEN Raise(f, "'confidence'")
    ELSE LET g == [f EXCEPT !.response_text = sr.dict.response,
                            !.confidence = sr.dict.confidence,
                            !.audio_file = JNull] IN
         IF f.request.mode = "voice" \/ Truthy(f.request.audio_file)
         THEN Await(g, "tts", [text |-> g.response_text, voice_rate |-> VoiceRate])
         ELSE Step7(g)

\* lines 56-62
Step6(f) ==
    LET sr == f.synthesis_response IN
    IF ~IsDict(sr) THEN Raise(f, "list indices must be integers or slices, not str")
    ELSE IF "response" \notin DOMAIN sr.dict THEN Raise(f, "'response'")
    ELSE IF "confidence" \notin DOMAIN sr.dict THEN Raise(f, "'confidence'")
    ELSE LET g == [f EXCEPT !.response_text = sr.dict.response,
                            !.confidence = sr.dict.confidence,
                            !.audio_file = JNull] IN
         IF f.request.mode = "voice"
         THEN Await(g, "tts", [text |-> g.response_text, voice_rate |-> VoiceRate])
         ELSE Step7(g)

\* the fusing of the context outside the try of synthesize_response
Step5_unwrapped(f) ==
    IF FuseRaises(f.context_chunks, f.news_data, f.earnings_data)
    THEN Raise(f, "object is not subscriptable")
    ELSE Await(f, "synthesize",
               [query |-> f.query_text,
                context_chunks |-> all_context(f.context_chunks, f.news_data, f.earnings_data),
                market_data |-> f.market_data])

\* lines 52-54 and 155-184: fuse the context and call the language agent
Step5(f) ==
    IF FuseRaises(f.context_chunks, f.news_data, f.earnings_data)
    THEN Step6([f EXCEPT !.synthesis_response = SynthesisFailed(ErrorConnecting)])
    ELSE Await(f, "synthesize",
               [query |-> f.query_text,
                context_chunks |-> all_context(f.context_chunks, f.news_data, f.earnings_data),
                market_data |-> f.market_data])

\* line 49
Step4(f) == Await(f, "retrieve", [query |-> f.query_text, top_k |-> TopK])

\* "elif" instead of the second "if"
EarningsGateElif(f) ==
    IF is_earnings_query(f.query_text.str) /\ ~is_news_query(f.query_text.str)
    THEN Await(f, "earnings", JNull)
    ELSE Step4(f)

\* lines 45-46
EarningsGate(f) ==
    IF is_earnings_query(f.query_text.str)
    THEN Await(f, "earnings", JNull)
    ELSE Step4(f)

\* the query of the request object is lowered in place before classifying
Step3_inplace(f) ==
    LET g == [f EXCEPT !.news_data = JList(<< >>), !.earnings_data = JList(<< >>)] IN
    IF ~IsStr(g.query_text)
    THEN Raise(g, "'list' object has no attribute 'lower'")
    ELSE LET h == [g EXCEPT !.request.query = lower(@)] IN
         IF is_news_query(h.query_text.str)
         THEN Await(h, "news", JNull)
         ELSE EarningsGate(h)

\* lines 41-44
Step3(f) ==
    LET g == [f EXCEPT !.news_data = JList(<< >>), !.earnings_data = JList(<< >>)] IN
    IF ~IsStr(g.query_text)
    THEN Raise(g, "'list' object has no attribute 'lower'")
    ELSE IF is_news_query(g.query_text.str)
    THEN Await(g, "news", JNull)
    ELSE EarningsGate(g)

\* line 38
Step2(f) == Await(f, "market", JNull)

(* ------------------- the wrapped collaborator calls -------------------- *)
Is200(reply) == reply.kind = "http" /\ reply.status = StatusOK

\* response.json()[key] of a 200 reply; raises when the key is missing
HasField(reply, key) == IsDict(reply.body) /\ key \in DOMAIN reply.body.dict

\* lines 107-114
get_market_data_result(reply) ==
    IF Is200(reply) /\ HasField(reply, "data") THEN reply.body.dict.data ELSE JList(<< >>)

\* lines 118-125
get_scraped_news_result(reply) ==
    IF Is200(reply) /\ HasField(reply, "data") THEN reply.body.dict.data ELSE JList(<< >>)

\* lines 129-136
get_scraped_earnings_result(reply) ==
    IF Is200(reply) /\ HasField(reply, "data") THEN reply.body.dict.data ELSE JList(<< >>)

\* lines 140-150
retrieve_context_result(reply) ==
    IF Is200(reply) /\ HasField(reply, "chunks") THEN reply.body.dict.chunks ELSE JList(<< >>)

\* a failure reported as a text in place of the handle
generate_voice_response_result_text(reply) ==
    IF Is200(reply) /\ HasField(reply, "audio_file") THEN reply.body.dict.audio_file
    ELSE JStr("Error generating voice")

\* lines 197-207
generate_voice_response_result(reply) ==
    IF Is200(reply) /\ HasField(reply, "audio_file") THEN reply.body.dict.audio_file ELSE JNull

\* what the history keeps of a reply: the bodies of the list-valued calls are
\* kept by the locals they are assigned to
Logged(op, reply) ==
    IF op \in {"market", "news", "earnings", "retrieve"}
    THEN [op |-> op, kind |-> reply.kind,
          status |-> IF reply.kind = "http" THEN reply.status ELSE 0]
    ELSE [op |-> op, kind |-> reply.kind,
          status |-> IF reply.kind = "http" THEN reply.status ELSE 0,
          body |-> IF reply.kind = "http" THEN reply.body ELSE JNull]

Receive(op, reply) ==
    /\ pc = op
    /\ op \in inflight
    /\ replies' = Append(replies, Logged(op, reply))
    /\ UNCHANGED <<fn_arg, fn_out>>

(* ------------------------------ actions -------------------------------- *)
\* a voice request starts from the empty text instead of request.query
process_request_blank(req, audio_opens) ==
    /\ pc = "idle"
    /\ LET f == [Frame EXCEPT !.request = req, !.query_text =
                    IF req.mode = "voice" THEN JStr(<< >>) ELSE JStr(req.query)] IN
       IF req.mode = "voice" /\ Truthy(req.audio_file)
       THEN IF audio_opens
            THEN Resume(Await(f, "stt", [file |-> req.audio_file]))
            ELSE Resume(Raise(f, "[Errno 2] No such file or directory"))
       ELSE /\ audio_opens
            /\ Resume(Step2(f))
    /\ UNCHANGED <<replies, fn_arg, fn_out>>

\* lines 29-35 (and 97-100): a request arrives and runs to its first call
process_request(req, audio_opens) ==
    /\ pc = "idle"
    /\ LET f == [Frame EXCEPT !.request = req, !.query_text = JStr(req.query)] IN
       IF req.mode = "voice" /\ Truthy(req.audio_file)
       THEN IF audio_opens
            THEN Resume(Await(f, "stt", [file |-> req.audio_file]))
            ELSE Resume(Raise(f, "[Errno 2] No such file or directory"))
       ELSE /\ audio_opens
            /\ Resume(Step2(f))
    /\ UNCHANGED <<replies, fn_arg, fn_out>>

\* lines 100-103: not wrapped in try/except
process_voice_input(reply) ==
    /\ Receive("stt", reply)
    /\ LET f == Replied(Frame) IN
       IF reply.kind = "neterr"
       THEN Resume(Raise(f, "All connection attempts failed"))
       ELSE IF reply.status # StatusOK
       THEN Resume(Step2([f EXCEPT !.query_text = JStr(VoiceErrorText)]))
       ELSE IF HasField(reply, "text")
       THEN Resume(Step2([f EXCEPT !.query_text = reply.body.dict.text]))
       ELSE Resume(Raise(f, "'text'"))

get_market_data(reply) ==
    /\ Receive("market", reply)
    /\ Resume(Step3([Replied(Frame) EXCEPT !.market_data = get_market_data_result(reply)]))

get_scraped_news(reply) ==
    /\ Receive("news", reply)
    /\ Resume(EarningsGate([Replied(Frame) EXCEPT !.news_data = get_scraped_news_result(reply)]))

get_scraped_earnings(reply) ==
    /\ Receive("earnings", reply)
    /\ Resume(Step4([Replied(Frame) EXCEPT
                        !.earnings_data = get_scraped_earnings_result(reply)]))

\* a retrieval that is attempted a second time when the first attempt failed
retrieve_context_retry(reply) ==
    /\ Receive("retrieve", reply)
    /\ IF ~Is200(reply) /\ calls[Len(calls) - 1].op # "retrieve"
       THEN Resume(Step4(Replied(Frame)))
       ELSE Resume(Step5([Replied(Frame) EXCEPT
                             !.context_chunks = retrieve_context_result(reply)]))

retrieve_context(reply) ==
    /\ Receive("retrieve", reply)
    /\ Resume(Step5([Replied(Frame) EXCEPT !.context_chunks = retrieve_context_result(reply)]))

synthesize_response(reply) ==
    /\ Receive("synthesize", reply)
    /\ Resume(Step6([Replied(Frame) EXCEPT
                        !.synthesis_response = synthesis_result(reply, news_data, earnings_data)]))

\* a text-to-speech call that is repeated once when it gave no audio
generate_voice_response_retry(reply) ==
    /\ Receive("tts", reply)
    /\ LET f == [Replied(Frame) EXCEPT !.audio_file = generate_voice_response_result(reply)] IN
       IF f.audio_file = JNull /\ calls[Len(calls) - 1].op # "tts"
       THEN Resume(Await(f, "tts", [text |-> f.response_text, voice_rate |-> VoiceRate]))
       ELSE Resume(Step7(f))

\* line 62
generate_voice_response(reply) ==
    /\ Receive("tts", reply)
    /\ Resume(Step7([Replied(Frame) EXCEPT !.audio_file = generate_voice_response_result(reply)]))

\* a fallback speech whose result is dropped: the earlier handle stays
generate_fallback_voice_response_keeps(reply) ==
    /\ Receive("tts_fallback", reply)
    /\ Resume(Fallback(Replied(Frame)))

\* line 68
generate_fallback_voice_response(reply) ==
    /\ Receive("tts_fallback", reply)
    /\ Resume(Fallback([Replied(Frame) EXCEPT
                           !.audio_file = generate_voice_response_result(reply)]))

Idle ==
    /\ agents = Agents
    /\ confidence_threshold = ConfidenceThreshold
    /\ request = JNull
    /\ pc = "idle"
    /\ query_text = JNull
    /\ market_data = JNull
    /\ news_data = JNull
    /\ earnings_data = JNull
    /\ context_chunks = JNull
    /\ synthesis_response = JNull
    /\ response_text = JNull
    /\ confidence = JNull
    /\ audio_file = JNull
    /\ inflight = {}
    /\ calls = << >>
    /\ replies = << >>
    /\ returned = JNull

Init == Idle /\ fn_arg = JNull /\ fn_out = JNull

Next ==
    \/ \E req \in Requests, audio_opens \in BOOLEAN : process_request(req, audio_opens)
    \/ \E reply \in SpeechReplies : process_voice_input(reply)
    \/ \E reply \in MarketReplies : get_market_data(reply)
    \/ \E reply \in NewsReplies : get_scraped_news(reply)
    \/ \E reply \in EarningsReplies : get_scraped_earnings(reply)
    \/ \E reply \in RetrieveReplies : retrieve_context(reply)
    \/ \E reply \in SynthesisReplies : synthesize_response(reply)
    \/ \E reply \in VoiceReplies("answer.mp3") : generate_voice_response(reply)
    \/ \E reply \in VoiceReplies("fallback.mp3") : generate_fallback_voice_response(reply)

Spec == Init /\ [][Next]_vars

(* --------------- the classifier applied to bounded texts --------------- *)
Alphabet == {"e", "p", "s", "n", "w", "E", " "}
TextsUpTo(n) == UNION { [1..k -> Alphabet] : k \in 0..n }

upper_char(c) ==
    IF \E i \in DOMAIN LowerCase : LowerCase[i] = c
    THEN UpperCase[CHOOSE i \in DOMAIN LowerCase : LowerCase[i] = c]
    ELSE c

\* every keyword alone, and in capitals inside a longer text
KeywordTexts ==
    (news_keywords \cup earnings_keywords)
    \cup { <<"a", " ">> \o [i \in DOMAIN k |-> upper_char(k[i])] \o <<"!">> :
             k \in news_keywords \cup earnings_keywords }

Texts == TextsUpTo(MaxTextLen) \cup KeywordTexts \cup Queries \cup {Q_blank, VoiceErrorText}

classify ==
    /\ fn_out = JNull
    /\ fn_out' = [is_news |-> is_news_query(fn_arg), is_earnings |-> is_earnings_query(fn_arg)]
    /\ UNCHANGED <<agents, confidence_threshold, request, pc, query_text, market_data,
                   news_data, earnings_data, context_chunks, synthesis_response,
                   response_text, confidence, audio_file, inflight, calls, replies,
                   returned, fn_arg>>

InitClassify == Idle /\ fn_arg \in Texts /\ fn_out = JNull
NextClassify == classify
SpecClassify == InitClassify /\ [][NextClassify]_vars

(* ------- lines 185-193 applied to bounded confidences and lists -------- *)
BoostReplies ==
    Failures
    \cup { Http(StatusOK, JDict([response |-> JStr("answer"), confidence |-> JNum(c)])) :
             c \in 0..ConfMax }

boost ==
    /\ fn_out = JNull
    /\ fn_out' = synthesis_result(fn_arg.reply, fn_arg.news_data, fn_arg.earnings_data)
    /\ UNCHANGED <<agents, confidence_threshold, request, pc, query_text, market_data,
                   news_data, earnings_data, context_chunks, synthesis_response,
                   response_text, confidence, audio_file, inflight, calls, replies,
                   returned, fn_arg>>

InitBoost ==
    /\ Idle
    /\ fn_arg \in [reply : BoostReplies,
                news_data : { JList(l) : l \in Prefixes([i \in 1..MaxItems |-> NewsItem(i)]) },
                earnings_data : { JList(l) : l \in Prefixes([i \in 1..MaxItems |-> EarningsItem(i)]) }]
    /\ fn_out = JNull
NextBoost == boost
SpecBoost == InitBoost /\ [][NextBoost]_vars

(* ------------- the same request processed a second time ---------------- *)
\* the replies of the two runs: of every call a network error, a non-200
\* reply, a well-formed reply and an ill-formed one
ReplayListReplies(key, item) ==
    Failures
    \cup { Http(StatusOK, JDict([k \in {key} |-> JList(<<item>>)])),
           Http(StatusOK, JDict([k \in {key} |-> JNum(7)])) }
ReplaySpeechReplies ==
    Failures \cup { Http(StatusOK, JDict([text |-> JStr(Q_both)])), Http(StatusOK, NoBody) }
ReplaySynthesisReplies ==
    Failures
    \cup { Http(StatusOK, JDict([response |-> JStr("answer"), confidence |-> JNum(c)])) :
             c \in {60, 90} }
    \cup { Http(StatusOK, JDict([confidence |-> JNum(90)])),
           Http(StatusOK, JDict([response |-> JStr("answer"), confidence |-> JStr("high")])) }
ReplayVoiceReplies(handle) ==
    { NetErr, Http(StatusOK, JDict([audio_file |-> JStr(handle)])),
      Http(StatusOK, JDict([audio_file |-> JList(<< >>)])) }

\* what a list-valued call hands to process_request for a reply
ReplyValue(op, reply) ==
    CASE op = "market" -> get_market_data_result(reply)
      [] op = "news" -> get_scraped_news_result(reply)
      [] op = "earnings" -> get_scraped_earnings_result(reply)
      [] op = "retrieve" -> retrieve_context_result(reply)
      [] OTHER -> JNull

\* the orchestrator is built once and serves every request: the first
\* request has returned, its run is remembered in fn_arg, and process_request
\* is entered again on the same object with a fresh frame
again ==
    /\ pc = "done"
    /\ fn_arg = JNull
    /\ fn_arg' = [request |-> request, calls |-> calls, replies |-> replies,
                  returned |-> returned,
                  values |-> [market |-> market_data, news |-> news_data,
                              earnings |-> earnings_data, retrieve |-> context_chunks]]
    /\ pc' = "idle"
    /\ query_text' = JNull
    /\ market_data' = JNull
    /\ news_data' = JNull
    /\ earnings_data' = JNull
    /\ context_chunks' = JNull
    /\ synthesis_response' = JNull
    /\ response_text' = JNull
    /\ confidence' = JNull
    /\ audio_file' = JNull
    /\ inflight' = {}
    /\ calls' = << >>
    /\ replies' = << >>
    /\ returned' = JNull
    /\ UNCHANGED <<agents, confidence_threshold, request, fn_out>>

\* the second time the caller passes the same request, and the audio file
\* opens iff it did the first time
SameRequest(req, audio_opens) ==
    fn_arg # JNull =>
        /\ req = fn_arg.request
        /\ audio_opens <=>
              fn_arg.returned.response # ErrorPrefix \o "[Errno 2] No such file or directory"

\* the collaborators are functions of the call: a call made the first time
\* gets the reply it got then
SameReply(op, reply) ==
    /\ pc = op
    /\ fn_arg # JNull =>
          \A i \in DOMAIN fn_arg.calls :
              fn_arg.calls[i] = calls[Len(calls)] =>
                 /\ Logged(op, reply) = fn_arg.replies[i]
                 /\ op \in DOMAIN fn_arg.values => ReplyValue(op, reply) = fn_arg.values[op]

InitReplay == Init

NextReplay ==
    \/ \E req \in Requests, audio_opens \in BOOLEAN :
          SameRequest(req, audio_opens) /\ process_request(req, audio_opens)
    \/ \E reply \in ReplaySpeechReplies :
          SameReply("stt", reply) /\ process_voice_input(reply)
    \/ \E reply \in ReplayListReplies("data", Stock(1)) :
          SameReply("market", reply) /\ get_market_data(reply)
    \/ \E reply \in ReplayListReplies("data", NewsItem(1)) :
          SameReply("news", reply) /\ get_scraped_news(reply)
    \/ \E reply \in ReplayListReplies("data", EarningsItem(1)) :
          SameReply("earnings", reply) /\ get_scraped_earnings(reply)
    \/ \E reply \in ReplayListReplies("chunks", Chunk(1)) :
          SameReply("retrieve", reply) /\ retrieve_context(reply)
    \/ \E reply \in ReplaySynthesisReplies :
          SameReply("synthesize", reply) /\ synthesize_response(reply)
    \/ \E reply \in ReplayVoiceReplies("answer.mp3") :
          SameReply("tts", reply) /\ generate_voice_response(reply)
    \/ \E reply \in ReplayVoiceReplies("fallback.mp3") :
          SameReply("tts_fallback", reply) /\ generate_fallback_voice_response(reply)
    \/ again

SpecReplay == InitReplay /\ [][NextReplay]_vars

(* ---------------- two requests on the same orchestrator ---------------- *)
\* a coroutine of process_request: the request it was given, its position,
\* its locals and its history; self is not part of it
Coroutine ==
    [request |-> request, pc |-> pc, query_text |-> query_text,
     market_data |-> market_data, news_data |-> news_data,
     earnings_data |-> earnings_data, context_chunks |-> context_chunks,
     synthesis_response |-> synthesis_response, response_text |-> response_text,
     confidence |-> confidence, audio_file |-> audio_file, inflight |-> inflight,
     calls |-> calls, replies |-> replies, returned |-> returned]

NotStarted ==
    [request |-> JNull, pc |-> "idle", query_text |-> JNull, market_data |-> JNull,
     news_data |-> JNull, earnings_data |-> JNull, context_chunks |-> JNull,
     synthesis_response |-> JNull, response_text |-> JNull, confidence |-> JNull,
     audio_file |-> JNull, inflight |-> {}, calls |-> << >>, replies |-> << >>,
     returned |-> JNull]

\* the second request and the replies its calls get
OtherRequest == [query |-> Q_earn, mode |-> "text", audio_file |-> JNull]
OtherReply(op) ==
    CASE op = "market" -> Http(StatusOK, JDict([data |-> JList(<<Stock(2)>>)]))
      [] op = "earnings" -> Http(StatusOK, JDict([data |-> JList(<<EarningsItem(3)>>)]))
      [] op = "retrieve" -> Http(StatusOK, JDict([chunks |-> JList(<<Chunk(2)>>)]))
      [] op = "synthesize" ->
            Http(StatusOK, JDict([response |-> JStr("brief"), confidence |-> JNum(90)]))
      [] OTHER -> NetErr
FirstRequests == { req \in Requests : req.query # OtherRequest.query }

\* the coroutines share one variable for the query text instead of a local each
switch_shared ==
    /\ fn_out.running \in {"A", "B"}
    /\ fn_arg' = Coroutine
    /\ fn_out' = [running |-> IF fn_out.running = "A" THEN "B" ELSE "A"]
    /\ request' = fn_arg.request
    /\ pc' = fn_arg.pc
    /\ query_text' = query_text
    /\ market_data' = fn_arg.market_data
    /\ news_data' = fn_arg.news_data
    /\ earnings_data' = fn_arg.earnings_data
    /\ context_chunks' = fn_arg.context_chunks
    /\ synthesis_response' = fn_arg.synthesis_response
    /\ response_text' = fn_arg.response_text
    /\ confidence' = fn_arg.confidence
    /\ audio_file' = fn_arg.audio_file
    /\ inflight' = fn_arg.inflight
    /\ calls' = fn_arg.calls
    /\ replies' = fn_arg.replies
    /\ returned' = fn_arg.returned
    /\ UNCHANGED <<agents, confidence_threshold>>

\* the running coroutine is suspended at an await (or has not started, or has
\* returned) and the event loop runs the other one, whose frame is in fn_arg;
\* self is the same object for both
switch ==
    /\ fn_out.running \in {"A", "B"}
    /\ fn_arg' = Coroutine
    /\ fn_out' = [running |-> IF fn_out.running = "A" THEN "B" ELSE "A"]
    /\ request' = fn_arg.request
    /\ pc' = fn_arg.pc
    /\ query_text' = fn_arg.query_text
    /\ market_data' = fn_arg.market_data
    /\ news_data' = fn_arg.news_data
    /\ earnings_data' = fn_arg.earnings_data
    /\ context_chunks' = fn_arg.context_chunks
    /\ synthesis_response' = fn_arg.synthesis_response
    /\ response_text' = fn_arg.response_text
    /\ confidence' = fn_arg.confidence
    /\ audio_file' = fn_arg.audio_file
    /\ inflight' = fn_arg.inflight
    /\ calls' = fn_arg.calls
    /\ replies' = fn_arg.replies
    /\ returned' = fn_arg.returned
    /\ UNCHANGED <<agents, confidence_threshold>>

\* both have returned: the first request is given to a newly constructed
\* orchestrator, alone; what it did beside the other is remembered in fn_arg
alone ==
    /\ fn_out.running \in {"A", "B"}
    /\ pc = "done" /\ fn_arg.pc = "done"
    /\ LET a == IF fn_out.running = "A" THEN Coroutine ELSE fn_arg IN
       fn_arg' = [request |-> a.request, calls |-> a.calls, replies |-> a.replies,
                  returned |-> a.returned,
                  values |-> [market |-> a.market_data, news |-> a.news_data,
                              earnings |-> a.earnings_data,
                              retrieve |-> a.context_chunks]]
    /\ fn_out' = [running |-> "alone"]
    /\ agents' = Agents
    /\ confidence_threshold' = ConfidenceThreshold
    /\ request' = JNull
    /\ pc' = "idle"
    /\ query_text' = JNull
    /\ market_data' = JNull
    /\ news_data' = JNull
    /\ earnings_data' = JNull
    /\ context_chunks' = JNull
    /\ synthesis_response' = JNull
    /\ response_text' = JNull
    /\ confidence' = JNull
    /\ audio_file' = JNull
    /\ inflight' = {}
    /\ calls' = << >>
    /\ replies' = << >>
    /\ returned' = JNull

\* what the caller passes: any request to the first coroutine, the other
\* request to the second, the first request again to the run alone
RequestOf(req, audio_opens) ==
    CASE fn_out.running = "A" -> req \in FirstRequests
      [] fn_out.running = "B" -> req = OtherRequest
      [] OTHER -> SameRequest(req, audio_opens)

\* what the collaborators answer: anything to the first coroutine, and to the
\* run alone what they answered to the first coroutine
ReplyOf(op, reply) ==
    /\ pc = op
    /\ CASE fn_out.running = "A" -> reply # OtherReply(op) \/ reply = NetErr
         [] fn_out.running = "B" -> reply = OtherReply(op)
         [] OTHER -> SameReply(op, reply)

InitConcurrent == Idle /\ fn_arg = NotStarted /\ fn_out = [running |-> "A"]

NextConcurrent ==
    \/ \E req \in Requests, audio_opens \in BOOLEAN :
          RequestOf(req, audio_opens) /\ process_request(req, audio_opens)
    \/ \E reply \in ReplaySpeechReplies :
          ReplyOf("stt", reply) /\ process_voice_input(reply)
    \/ \E reply \in ReplayListReplies("data", Stock(1)) \cup {OtherReply("market")} :
          ReplyOf("market", reply) /\ get_market_data(reply)
    \/ \E reply \in ReplayListReplies("data", NewsItem(1)) :
          ReplyOf("news", reply) /\ get_scraped_news(reply)
    \/ \E reply \in ReplayListReplies("data", EarningsItem(1)) \cup {OtherReply("earnings")} :
          ReplyOf("earnings", reply) /\ get_scraped_earnings(reply)
    \/ \E reply \in ReplayListReplies("chunks", Chunk(1)) \cup {OtherReply("retrieve")} :
          ReplyOf("retrieve", reply) /\ retrieve_context(reply)
    \/ \E reply \in ReplaySynthesisReplies \cup {OtherReply("synthesize")} :
          ReplyOf("synthesize", reply) /\ synthesize_response(reply)
    \/ \E reply \in ReplayVoiceReplies("answer.mp3") :
          ReplyOf("tts", reply) /\ generate_voice_response(reply)
    \/ \E reply \in ReplayVoiceReplies("fallback.mp3") :
          ReplyOf("tts_fallback", reply) /\ generate_fallback_voice_response(reply)
    \/ switch
    \/ alone

SpecConcurrent == InitConcurrent /\ [][NextConcurrent]_vars

(* ------------- every outstanding call is eventually answered ----------- *)
\* the call awaited returns a reply or fails (network error, timeout)
RepliesArrive ==
    \/ \E reply \in ReplaySpeechReplies : process_voice_input(reply)
    \/ \E reply \in ReplayListReplies("data", Stock(1)) : get_market_data(reply)
    \/ \E reply \in ReplayListReplies("data", NewsItem(1)) : get_scraped_news(reply)
    \/ \E reply \in ReplayListReplies("data", EarningsItem(1)) : get_scraped_earnings(reply)
    \/ \E reply \in ReplayListReplies("chunks", Chunk(1)) : retrieve_context(reply)
    \/ \E reply \in ReplaySynthesisReplies : synthesize_response(reply)
    \/ \E reply \in ReplayVoiceReplies("answer.mp3") : generate_voice_response(reply)
    \/ \E reply \in ReplayVoiceReplies("fallback.mp3") :
          generate_fallback_voice_response(reply)

InitLive == Init

NextLive ==
    \/ \E req \in Requests, audio_opens \in BOOLEAN : process_request(req, audio_opens)
    \/ RepliesArrive

AllReplies ==
    ReplaySpeechReplies \cup ReplaySynthesisReplies
    \cup ReplayListReplies("data", Stock(1)) \cup ReplayListReplies("data", NewsItem(1))
    \cup ReplayListReplies("data", EarningsItem(1)) \cup ReplayListReplies("chunks", Chunk(1))
    \cup ReplayVoiceReplies("answer.mp3") \cup ReplayVoiceReplies("fallback.mp3")

\* the call in flight that the coroutine awaits is answered: a step of
\* RepliesArrive, told by the reply it adds to the history
Answered ==
    /\ pc \in inflight
    /\ replies' \in { Append(replies, Logged(pc, reply)) : reply \in AllReplies }

\* httpx ends every call with a reply or with an exception (the timeouts of
\* lines 119, 130, 156 and the client's default): no await lasts forever
SpecLive == InitLive /\ [][NextLive]_vars /\ WF_replies(Answered)

(* ------------- the pipeline with the repository's language agent ------- *)
\* an agent whose confidence does not count the market data
language_agent_nomarket(arg) ==
    IF IsStr(arg.query) /\ IsList(arg.market_data)
    THEN Http(StatusOK,
              JDict([response |-> JStr("answer"),
                     confidence |-> JNum(Min(90, 50 + 10 * Len(arg.context_chunks))),
                     status |-> JStr("success")]))
    ELSE Http(422, NoBody)

\* src/agents/language_agent.py, lines 54-93: the reply to a synthesis
\* call; a body that does not validate as SynthesisRequest is refused (422)
language_agent(arg) ==
    IF IsStr(arg.query) /\ IsList(arg.market_data)
    THEN Http(StatusOK,
              JDict([response |-> JStr("answer"),
                     confidence |-> JNum(Min(90, 50 + 10 * Len(arg.context_chunks)
                                                    + 10 * Len(arg.market_data.list))),
                     status |-> JStr("success")]))
    ELSE Http(422, NoBody)

\* the call reaches the agent, which answers, or it fails on the way
LanguageReplies == Failures \cup { language_agent(calls[Len(calls)].arg) }

InitComposed == Init

NextComposed ==
    \/ \E req \in Requests, audio_opens \in BOOLEAN : process_request(req, audio_opens)
    \/ \E reply \in SpeechReplies : process_voice_input(reply)
    \/ \E reply \in MarketReplies : get_market_data(reply)
    \/ \E reply \in NewsReplies : get_scraped_news(reply)
    \/ \E reply \in EarningsReplies : get_scraped_earnings(reply)
    \/ \E reply \in RetrieveReplies : retrieve_context(reply)
    \/ pc = "synthesize" /\ \E reply \in LanguageReplies : synthesize_response(reply)
    \/ \E reply \in VoiceReplies("answer.mp3") : generate_voice_response(reply)
    \/ \E reply \in VoiceReplies("fallback.mp3") : generate_fallback_voice_response(reply)

SpecComposed == InitComposed /\ [][NextComposed]_vars

(* ======================= the claims about the code ===================== *)
Ops == {"stt", "market", "news", "earnings", "retrieve", "synthesize", "tts", "tts_fallback"}
Done == pc = "done"
Called(op) == \E i \in DOMAIN calls : calls[i].op = op
Failed(r) == r.kind = "neterr" \/ r.status # 200
FailedCall(op) == \E i \in DOMAIN replies : replies[i].op = op /\ Failed(replies[i])
ListOf(v) == IF IsList(v) THEN v.list ELSE << >>
Scraped == Len(ListOf(news_data)) > 0 \/ Len(ListOf(earnings_data)) > 0

\* the keyword sets as the specification spells them
SpecNewsWords == {
    <<"n","e","w","s">>, <<"h","e","a","d","l","i","n","e","s">>,
    <<"l","a","t","e","s","t">>, <<"b","r","e","a","k","i","n","g">>,
    <<"a","n","n","o","u","n","c","e","m","e","n","t","s">>,
    <<"r","e","p","o","r","t","s">> }
SpecEarningsWords == {
    <<"e","a","r","n","i","n","g","s">>, <<"q","u","a","r","t","e","r","l","y">>,
    <<"r","e","s","u","l","t","s">>, <<"p","r","o","f","i","t">>,
    <<"r","e","v","e","n","u","e">>, <<"e","p","s">> }

\* word occurs in text at position i, letter case ignored
OccursAt(text, word, i) ==
    /\ i + Len(word) - 1 <= Len(text)
    /\ \A j \in 1..Len(word) : lower_char(text[i + j - 1]) = word[j]
Mentions(text, words) ==
    \E word \in words : \E i \in 1..Len(text) : OccursAt(text, word, i)

\* C1: process_request always returns an OrchestratorResponse whose status is
\* "success" or "error": whenever the coroutine is not idle and not suspended
\* on its one outstanding call it has returned such a response, and no
\* exception has left it.
C1_AlwaysResponds ==
    /\ pc \in {"idle", "done"} \cup Ops
    /\ (pc = "done") <=> (returned # JNull)
    /\ pc = "done" =>
         /\ returned.status \in {"success", "error"}
         /\ returned.confidence \in Int
         /\ returned.audio_file = JNull \/ IsStr(returned.audio_file)

\* an error response produced from a collaborator's reply
C1_Witness ==
    /\ Done /\ returned.status = "error"
    /\ \E i \in DOMAIN replies : replies[i].op = "synthesize" /\ ~Failed(replies[i])

\* a reply that is well formed for the call it answers (the list-valued
\* replies are judged by the local they were assigned to)
WellFormed(r) ==
    /\ ~Failed(r)
    /\ CASE r.op = "stt" -> HasField(r, "text") /\ IsStr(r.body.dict.text)
         [] r.op = "synthesize" ->
               /\ HasField(r, "response") /\ IsStr(r.body.dict.response)
               /\ HasField(r, "confidence") /\ IsNum(r.body.dict.confidence)
         [] r.op \in {"tts", "tts_fallback"} ->
               HasField(r, "audio_file") /\ IsStr(r.body.dict.audio_file)
         [] OTHER -> TRUE
ListsWellFormed ==
    \A v \in {market_data, news_data, earnings_data, context_chunks} : IsList(v) \/ v = JNull

\* C2: every collaborator call is wrapped: when any subset of the calls fails
\* by network error, timeout or non-2xx reply (the other replies being well
\* formed) the response has status "success"; when every call fails the
\* response is the clarification message with confidence 0.0 and null audio.
C2_EveryCallDegrades ==
    (Done /\ ListsWellFormed /\ \E i \in DOMAIN replies : Failed(replies[i])) =>
        /\ (\A i \in DOMAIN replies : Failed(replies[i]) \/ WellFormed(replies[i]))
              => returned.status = "success"
        /\ (\A i \in DOMAIN replies : Failed(replies[i]))
              => returned = [response |-> FallbackMsg, confidence |-> 0,
                             audio_file |-> JNull, status |-> "success"]

\* C3: in voice mode with an audio handle, whenever the speech-to-text call
\* fails, the query text becomes "Error processing voice input", that text is
\* what retrieval and synthesis receive, and (the other replies being failures
\* or well formed) the response has status "success".
C3_VoiceFailureSubstitutes ==
    FailedCall("stt") =>
        /\ query_text = JStr(VoiceErrorText)
        /\ \A i \in DOMAIN calls :
              calls[i].op \in {"retrieve", "synthesize"} =>
                 calls[i].arg.query = JStr(VoiceErrorText)
        /\ (Done /\ ListsWellFormed
                 /\ \A i \in DOMAIN replies : Failed(replies[i]) \/ WellFormed(replies[i]))
              => returned.status = "success"

Rank(op) ==
    CASE op = "stt" -> 1 [] op = "market" -> 2 [] op = "news" -> 3
      [] op = "earnings" -> 4 [] op = "retrieve" -> 5 [] op = "synthesize" -> 6
      [] op = "tts" -> 7 [] op = "tts_fallback" -> 8

\* C4: the outbound calls of a request are issued in the fixed order
\* speech-to-text, market data, news, earnings, retrieval, synthesis,
\* text-to-speech, with at most one call in flight: a call is issued only
\* when every earlier call has been answered, the voice calls only in voice mode.
C4_Sequential ==
    /\ Cardinality(inflight) <= 1
    /\ Len(calls) = Len(replies) + Cardinality(inflight)
    /\ inflight # {} => inflight = {calls[Len(calls)].op}
    /\ \A i, j \in DOMAIN calls : i < j => Rank(calls[i].op) < Rank(calls[j].op)
    /\ \A i \in DOMAIN calls :
          calls[i].op \in {"stt", "tts", "tts_fallback"} => request.mode = "voice"

\* a voice request that went through seven stages
C4_Witness ==
    /\ Done /\ Len(calls) >= 7
    /\ calls[1].op = "stt" /\ Called("news") /\ Called("earnings") /\ Called("tts")

\* C5: once step 3 is passed (the retrieval call is issued), the news
\* collaborator was called iff the query text contains a news keyword and the
\* earnings collaborator iff it contains an earnings keyword, independently;
\* a list whose fetch was skipped is empty.
C5_Gating ==
    Called("retrieve") =>
        /\ Called("news") <=> Mentions(query_text.str, SpecNewsWords)
        /\ Called("earnings") <=> Mentions(query_text.str, SpecEarningsWords)
        /\ ~Called("news") => news_data = JList(<< >>)
        /\ ~Called("earnings") => earnings_data = JList(<< >>)

\* a transcript matching both sets triggered both fetches
C5_Witness ==
    /\ Called("retrieve") /\ Called("stt")
    /\ Called("news") /\ Called("earnings")
    /\ query_text = JStr(Q_both)

Blank(text) == \A i \in DOMAIN text : text[i] = " "

\* C6: is_news_query(text) is true exactly when the text contains, in any
\* letter case and anywhere, one of the six news keywords, is_earnings_query
\* exactly when it contains one of the six earnings keywords; empty and
\* whitespace-only texts give false for both.
C6_ClassifierLaw ==
    fn_out # JNull =>
        /\ fn_out.is_news <=> Mentions(fn_arg, SpecNewsWords)
        /\ fn_out.is_earnings <=> Mentions(fn_arg, SpecEarningsWords)
        /\ Blank(fn_arg) => ~fn_out.is_news /\ ~fn_out.is_earnings

\* a text in mixed case for which both flags are true
C6_Witness ==
    /\ fn_out # JNull /\ fn_arg = Q_both
    /\ fn_out.is_news /\ fn_out.is_earnings

\* C7: the context list sent to the synthesis collaborator is the retrieved
\* chunks in order, then one "scraped_news" chunk for each of the first
\* min(3, len(news)) news items in order, then one "scraped_earnings" chunk
\* for each of the first min(3, len(earnings)) earnings items in order; its
\* length is the sum of the three counts.
C7_Fusion ==
    \A c \in DOMAIN calls :
        calls[c].op = "synthesize" =>
            LET sent == calls[c].arg.context_chunks
                retrieved == ListOf(context_chunks)
                news == ListOf(news_data)
                earnings == ListOf(earnings_data)
                n == Min(3, Len(news))
                e == Min(3, Len(earnings))
            IN  /\ Len(sent) = Len(retrieved) + n + e
                /\ \A i \in 1..Len(retrieved) : sent[i] = retrieved[i]
                /\ \A i \in 1..n :
                      /\ sent[Len(retrieved) + i] = news_chunk(news[i])
                      /\ sent[Len(retrieved) + i].source = "scraped_news"
                /\ \A i \in 1..e :
                      /\ sent[Len(retrieved) + n + i] = earnings_chunk(earnings[i])
                      /\ sent[Len(retrieved) + n + i].source = "scraped_earnings"

\* both scraped lists longer than three, with retrieved chunks before them
C7_Witness ==
    /\ Called("synthesize")
    /\ Len(ListOf(context_chunks)) = 2
    /\ Len(ListOf(news_data)) = 4 /\ Len(ListOf(earnings_data)) = 4
    /\ Len(calls[Len(calls)].arg.context_chunks) = 8

\* the confidence the synthesis step hands over before any boost: the
\* reply's own, or the substituted 0.0 when the call failed
BaseOf(reply) == IF Failed(reply) THEN 0 ELSE reply.body.dict.confidence.num
FnScraped == Truthy(fn_arg.news_data) \/ Truthy(fn_arg.earnings_data)

\* C8 as stated: the confidence equals min(0.95, base + 0.10) whenever the
\* news or the earnings list is non-empty and the base otherwise, whatever
\* the synthesis step produced the base from.
C8_BoostWhenever ==
    fn_out # JNull =>
        fn_out.dict.confidence.num =
            IF FnScraped THEN Min(95, BaseOf(fn_arg.reply) + 10) ELSE BaseOf(fn_arg.reply)

\* C8, amended: the confidence equals min(0.95, base + 0.10) whenever the
\* synthesis call returned a 200 reply and the news or the earnings list is
\* non-empty, and equals the base otherwise (the substituted 0.0 included).
C8_BoostOnReply ==
    fn_out # JNull =>
        fn_out.dict.confidence.num =
            IF FnScraped /\ ~Failed(fn_arg.reply)
            THEN Min(95, BaseOf(fn_arg.reply) + 10)
            ELSE BaseOf(fn_arg.reply)

\* the cap is hit: a base of 0.90 with scraped news gives 0.95
C8_Witness ==
    /\ fn_out # JNull /\ FnScraped /\ ~Failed(fn_arg.reply)
    /\ BaseOf(fn_arg.reply) = 90 /\ fn_out.dict.confidence.num = 95

\* the synthesis reply of the request, when it is a 200 reply whose body
\* carries a numeric confidence
HasBase(r) ==
    /\ r.op = "synthesize" /\ ~Failed(r)
    /\ HasField(r, "confidence") /\ IsNum(r.body.dict.confidence)

\* C9 as stated: for every base confidence in [0, 1] the confidence returned
\* by process_request lies in [0, 0.95] and is never lower than the base
\* (read in its most favourable sense, of the status "success" responses).
C9_Bounded ==
    (Done /\ returned.status = "success") =>
        \A i \in DOMAIN replies :
            (HasBase(replies[i]) /\ BaseOf(replies[i]) \in 0..100) =>
                /\ returned.confidence \in 0..95
                /\ returned.confidence >= BaseOf(replies[i])

\* C9, amended: for every base confidence in [0, 0.95] the confidence
\* returned lies in [0, 0.95], and in a status "success" response it is never
\* lower than the base.
C9_BoundedBelowCap ==
    Done =>
        \A i \in DOMAIN replies :
            (HasBase(replies[i]) /\ BaseOf(replies[i]) \in 0..95) =>
                /\ returned.confidence \in 0..95
                /\ returned.status = "success" => returned.confidence >= BaseOf(replies[i])

\* a boosted base that reaches the cap in a returned response
C9_Witness ==
    /\ Done /\ returned.status = "success" /\ Scraped
    /\ \E i \in DOMAIN replies : HasBase(replies[i]) /\ BaseOf(replies[i]) = 90
    /\ returned.confidence = 95

SynthesisCallFailed == FailedCall("synthesize")

\* C10 as stated: when the synthesis call fails and the news or earnings list
\* is non-empty, the confidence returned by process_request is 0.10.
C10_FailureBoosted ==
    (Done /\ SynthesisCallFailed /\ Scraped) => returned.confidence = 10

\* C10, amended: when the synthesis call fails and the news or earnings list
\* is non-empty, no boost is applied: the confidence returned by
\* process_request is 0.0.
C10_FailureNotBoosted ==
    (Done /\ SynthesisCallFailed /\ Scraped) => returned.confidence = 0

\* a failed synthesis call after news were scraped, answered with success
C10_Witness ==
    /\ Done /\ SynthesisCallFailed /\ Len(ListOf(news_data)) > 0
    /\ returned.status = "success"

Succeeded == Done /\ returned.status = "success"
SynthesisReply(r) == r.op = "synthesize"

\* C11: in every status "success" response whose confidence is strictly below
\* 0.70 the response text is the fixed clarification message, whatever text
\* the synthesis step produced, and the confidence returned is the computed
\* value itself: the one of the synthesis result, neither raised nor clamped
\* to the threshold nor reset.
C11_FloorFallback ==
    (Succeeded /\ returned.confidence < 70) =>
        /\ returned.response = FallbackMsg
        /\ returned.confidence = synthesis_response.dict.confidence.num
        /\ returned.confidence = confidence.num

\* a synthesized answer of confidence 0.60 replaced by the clarification
C11_Witness ==
    /\ Succeeded /\ returned.confidence = 60
    /\ synthesis_response.dict.response = JStr("answer")
    /\ returned.response = FallbackMsg

\* C12: the floor comparison is strict: in every status "success" response
\* whose confidence is at least 0.70, exactly 0.70 included, the response
\* text is the synthesis collaborator's own text and not the clarification
\* message.
C12_StrictFloor ==
    (Succeeded /\ returned.confidence >= 70) =>
        /\ returned.response # FallbackMsg
        /\ returned.response = synthesis_response.dict.response.str
        /\ \A i \in DOMAIN replies :
              SynthesisReply(replies[i]) =>
                 /\ ~Failed(replies[i])
                 /\ returned.response = replies[i].body.dict.response.str

\* a base of 0.60 boosted to exactly 0.70 with 2 news items, no earnings and
\* 1 retrieved chunk, the fused context being of length 3
C12_Witness ==
    /\ Succeeded /\ returned.confidence = 70
    /\ Len(ListOf(market_data)) > 0
    /\ Len(ListOf(news_data)) = 2 /\ Len(ListOf(earnings_data)) = 0
    /\ Len(ListOf(context_chunks)) = 1
    /\ \E i \in DOMAIN replies : HasBase(replies[i]) /\ BaseOf(replies[i]) = 60
    /\ \E c \in DOMAIN calls :
          calls[c].op = "synthesize" /\ Len(calls[c].arg.context_chunks) = 3
    /\ returned.response = "answer"

\* the messages of the exceptions that the modelled replies can raise
ExceptionMessages ==
    { "[Errno 2] No such file or directory", "All connection attempts failed",
      "'text'", "'list' object has no attribute 'lower'",
      "list indices must be integers or slices, not str", "'response'",
      "'confidence'", "'<' not supported between instances of 'str' and 'float'",
      "validation error for OrchestratorResponse" }
LastCall == calls[Len(calls)].op

\* C13: an exception that escapes a pipeline step is converted at the top
\* level into a response with status "error", confidence 0.0, the text
\* "Error processing request: " followed by the exception's message, and a
\* null audio handle; the request ends there: no call is outstanding and the
\* last call made is the one of the step that raised.
C13_TopLevelHandler ==
    (Done /\ returned.status = "error") =>
        /\ returned.confidence = 0
        /\ returned.audio_file = JNull
        /\ \E m \in ExceptionMessages : returned.response = ErrorPrefix \o m
        /\ inflight = {} /\ Len(calls) = Len(replies)
        /\ returned.response = ErrorPrefix \o "[Errno 2] No such file or directory"
              => calls = << >>
        /\ returned.response \in { ErrorPrefix \o "All connection attempts failed",
                                   ErrorPrefix \o "'text'" }
              => Len(calls) = 1 /\ LastCall = "stt"
        /\ returned.response = ErrorPrefix \o "'list' object has no attribute 'lower'"
              => LastCall = "market"
        /\ returned.response \in { ErrorPrefix \o "'response'", ErrorPrefix \o "'confidence'",
               ErrorPrefix \o "list indices must be integers or slices, not str" }
              => LastCall = "synthesize"

\* a voice request whose synthesis reply lacks the text: the exception of
\* line 56 ends the request before text-to-speech is called
C13_Witness ==
    /\ Done /\ returned.status = "error" /\ request.mode = "voice"
    /\ returned.response = ErrorPrefix \o "'response'"
    /\ Called("stt") /\ LastCall = "synthesize"

\* C14 as stated: the pipeline makes at most 7 outbound collaborator calls
\* per request, for every mode, query text and combination of outcomes.
C14_AtMostSeven == Len(calls) <= 7

\* C14, amended: the pipeline makes at most 8 outbound collaborator calls
\* per request, each of the eight call sites at most once: the eighth is the
\* second text-to-speech call, made in voice mode when the confidence is
\* below the threshold.
C14_AtMostEight ==
    /\ Len(calls) <= 8
    /\ \A i, j \in DOMAIN calls : calls[i].op = calls[j].op => i = j
    /\ Len(calls) = 8 => request.mode = "voice" /\ LastCall = "tts_fallback"

\* a voice request answered after eight calls
C14_Witness ==
    /\ Done /\ Len(calls) = 8 /\ returned.status = "success"
    /\ Called("tts") /\ Called("tts_fallback")

LastReply == replies[Len(replies)]

\* C15: in voice mode, when the computed confidence is below 0.70,
\* text-to-speech is called a second time, on the clarification message, and
\* the audio handle returned is the result of that second call, which
\* overwrites the handle obtained for the synthesized text: null if the
\* second call failed, even when the first had succeeded.
C15_FallbackSpeechOverwrites ==
    (Succeeded /\ request.mode = "voice" /\ returned.confidence < 70) =>
        /\ Called("tts")
        /\ LastCall = "tts_fallback" /\ LastReply.op = "tts_fallback"
        /\ calls[Len(calls)].arg.text = JStr(FallbackMsg)
        /\ returned.audio_file =
              IF Failed(LastReply) \/ ~HasField(LastReply, "audio_file") THEN JNull
              ELSE LastReply.body.dict.audio_file
        /\ returned.audio_file # JStr("answer.mp3")

\* the first text-to-speech call gave a handle, the second failed: null
C15_Witness ==
    /\ Succeeded /\ request.mode = "voice" /\ returned.confidence < 70
    /\ \E i \in DOMAIN replies : replies[i].op = "tts" /\ WellFormed(replies[i])
    /\ Failed(LastReply) /\ LastReply.op = "tts_fallback"
    /\ returned.audio_file = JNull

Count(op) == Cardinality({ i \in DOMAIN calls : calls[i].op = op })

\* C16: in every request, whatever the mode and whatever the outcome of the
\* voice step, the market data collaborator is called exactly once, whether
\* or not the query mentions a keyword.
C16_MarketExactlyOnce == Done => Count("market") = 1

VoiceWithoutAudio ==
    pc # "idle" /\ request.mode = "voice" /\ ~Truthy(request.audio_file)
QueryCalls == { i \in DOMAIN calls : calls[i].op \in {"retrieve", "synthesize"} }

\* C17 as stated: when mode is voice and no audio handle is supplied,
\* speech-to-text is not called and the pipeline proceeds with the empty
\* string as query text, whatever the request's query field contains: the
\* news and earnings fetches are skipped, and retrieval and synthesis
\* receive the empty query.
C17_EmptyQueryText ==
    VoiceWithoutAudio =>
        /\ ~Called("stt")
        /\ query_text = JStr(<< >>)
        /\ ~Called("news") /\ ~Called("earnings")
        /\ \A i \in QueryCalls : calls[i].arg.query = JStr(<< >>)

\* C17, amended: when mode is voice and no audio handle is supplied,
\* speech-to-text is not called and the pipeline proceeds with the request's
\* query field as query text: the news and earnings fetches are made iff
\* that field mentions their keywords, and retrieval and synthesis receive
\* it; with an empty query field both fetches are skipped and retrieval and
\* synthesis receive the empty query.
C17_KeepsQueryField ==
    VoiceWithoutAudio =>
        /\ ~Called("stt")
        /\ query_text = JStr(request.query)
        /\ Called("retrieve") =>
              /\ Called("news") <=> Mentions(request.query, SpecNewsWords)
              /\ Called("earnings") <=> Mentions(request.query, SpecEarningsWords)
        /\ \A i \in QueryCalls : calls[i].arg.query = JStr(request.query)
        /\ request.query = << >> => ~Called("news") /\ ~Called("earnings")

\* a voice request without audio whose query field mentions news: answered
\* after the news fetch, synthesis having received that query
C17_Witness ==
    /\ VoiceWithoutAudio /\ Done /\ request.query = Q_news
    /\ Called("news") /\ ~Called("stt")
    /\ \E i \in QueryCalls : calls[i].op = "synthesize" /\ calls[i].arg.query = JStr(Q_news)

FnFailed == fn_out # JNull /\ Failed(fn_arg.reply)

\* C18 as stated: whenever the synthesis call fails, by non-2xx reply as
\* well as by network error or timeout, synthesize_response yields exactly
\* {response: "Error connecting to language agent", confidence: 0.0}.
C18_FailureConnecting ==
    FnFailed =>
        fn_out = JDict([response |-> JStr("Error connecting to language agent"),
                        confidence |-> JNum(0)])

\* C18, amended: whenever the synthesis call fails, synthesize_response
\* yields a substitute result of confidence 0.0 whose text tells the two
\* failures apart: "Error connecting to language agent" after a network
\* error or timeout, "Error generating response" after a non-200 reply.
C18_FailureByKind ==
    FnFailed =>
        fn_out = JDict([response |->
                            IF fn_arg.reply.kind = "neterr"
                            THEN JStr("Error connecting to language agent")
                            ELSE JStr("Error generating response"),
                        confidence |-> JNum(0)])

\* a 500 reply, with scraped news at hand
C18_Witness ==
    /\ FnFailed /\ fn_arg.reply.kind = "http" /\ fn_arg.reply.status = 500
    /\ Truthy(fn_arg.news_data)
    /\ fn_out.dict.response = JStr("Error generating response")

SpeechOutcomes == { i \in DOMAIN replies : replies[i].op \in {"tts", "tts_fallback"} }
SpeechAnswered ==
    /\ Done /\ request.mode = "voice" /\ SpeechOutcomes # {}
    /\ \A i \in SpeechOutcomes : Failed(replies[i]) \/ WellFormed(replies[i])
WellTyped(sr) == IsStr(sr.dict.response) /\ IsNum(sr.dict.confidence)

\* C19: in voice mode a failure of text-to-speech (non-200, network error or
\* timeout) yields a null audio handle and changes nothing else: status,
\* response text and confidence are determined by the synthesis result alone,
\* the same whether the text-to-speech calls failed or gave a handle: with a
\* well-typed synthesis result the status is "success", the confidence the
\* computed one and the text the synthesized one or, below 0.70, the
\* clarification message.
C19_SpeechFailureFrame ==
    SpeechAnswered =>
        LET sr == synthesis_response IN
        /\ Failed(LastReply) => returned.audio_file = JNull
        /\ WellTyped(sr) =>
              /\ returned.status = "success"
              /\ returned.confidence = sr.dict.confidence.num
              /\ returned.response = IF sr.dict.confidence.num < 70 THEN FallbackMsg
                                     ELSE sr.dict.response.str
              /\ ~Failed(LastReply) => returned.audio_file = LastReply.body.dict.audio_file
        /\ ~WellTyped(sr) => returned.status = "error"

\* text-to-speech timed out on a confident answer: the answer is returned
\* with status "success" and without audio
C19_Witness ==
    /\ SpeechAnswered /\ LastReply.kind = "neterr"
    /\ returned = [response |-> "answer", confidence |-> 90,
                   audio_file |-> JNull, status |-> "success"]

SecondRun == fn_arg # JNull

\* C20: process_request run twice on the same orchestrator with the same
\* request, against collaborators that give identical replies to identical
\* calls, makes the same outbound calls with the same arguments in the same
\* order and returns the identical response (text, confidence, audio handle,
\* status); nothing accumulates on the orchestrator across calls.
C20_Idempotent ==
    SecondRun =>
        /\ Len(calls) <= Len(fn_arg.calls)
        /\ \A i \in DOMAIN calls : calls[i] = fn_arg.calls[i]
        /\ \A i \in DOMAIN replies : replies[i] = fn_arg.replies[i]
        /\ Done => calls = fn_arg.calls /\ returned = fn_arg.returned
        /\ agents = Agents /\ confidence_threshold = ConfidenceThreshold

\* the second run of a voice request has returned, after eight calls, the
\* answer of the first
C20_Witness ==
    /\ SecondRun /\ Done /\ Len(calls) = 8
    /\ returned = fn_arg.returned /\ returned.status = "success"
    /\ returned.audio_file = JStr("fallback.mp3")

Interleaved == fn_out.running \in {"A", "B"}
First == IF fn_out.running = "A" THEN Coroutine ELSE fn_arg
Other == IF fn_out.running = "B" THEN Coroutine ELSE fn_arg
OpsOf(c) == [i \in DOMAIN c.calls |-> c.calls[i].op]
OtherSynthesisCall ==
    [op |-> "synthesize",
     arg |-> [query |-> JStr(Q_earn),
              context_chunks |-> <<Chunk(2), earnings_chunk(EarningsItem(3))>>,
              market_data |-> JList(<<Stock(2)>>)]]

\* C21: two process_request executions on the same orchestrator, interleaved
\* arbitrarily at their await points, do not interfere: each issues the calls
\* and returns the response it does when run alone with the same replies,
\* and the query text, lists, context and confidence of one never appear in
\* the other.
C21_NoInterference ==
    /\ fn_out.running = "alone" =>
          /\ Len(calls) <= Len(fn_arg.calls)
          /\ \A i \in DOMAIN calls : calls[i] = fn_arg.calls[i]
          /\ Done => calls = fn_arg.calls /\ returned = fn_arg.returned
    /\ Interleaved =>
          /\ Other.pc # "idle" => Other.query_text = JStr(Q_earn)
          /\ \A i \in DOMAIN Other.calls :
                Other.calls[i].op = "synthesize" => Other.calls[i] = OtherSynthesisCall
          /\ Other.pc = "done" =>
                /\ OpsOf(Other) = <<"market", "earnings", "retrieve", "synthesize">>
                /\ Other.returned = [response |-> "brief", confidence |-> 95,
                                     audio_file |-> JNull, status |-> "success"]
          /\ First.pc # "idle" => First.query_text # JStr(Q_earn)
          /\ First.pc = "done" => First.returned.response # "brief"

\* the first request, a voice request, run alone, has made the eight calls
\* and returned the response it returned beside the other request
C21_Witness ==
    /\ fn_out.running = "alone" /\ Done /\ Len(calls) = 8
    /\ returned = fn_arg.returned /\ returned.status = "success"

\* C22: process_request has no side effect on the orchestrator: the address
\* table and the confidence threshold are, after any requests, successful or
\* failed, those of construction, and the request object passed in is not
\* modified.
C22_NoSideEffect ==
    /\ agents = Agents
    /\ confidence_threshold = ConfidenceThreshold
    /\ request = JNull \/ request \in Requests
    /\ Interleaved =>
          /\ First.pc # "idle" => First.request \in FirstRequests
          /\ Other.pc # "idle" => Other.request = OtherRequest
    /\ (fn_out.running = "alone" /\ pc # "idle") => request = fn_arg.request

\* two requests have been served, one answered with status "error" and one
\* with status "success"
C22_Witness ==
    /\ Interleaved /\ First.pc = "done" /\ Other.pc = "done"
    /\ First.returned.status = "error" /\ Other.returned.status = "success"
    /\ First.request.query = Q_news

Started == pc \in Ops

\* C23: provided every outbound call eventually returns a reply or fails,
\* every process_request execution that has started eventually returns a
\* response: it never waits forever and never loops.
C23_Terminates == Started ~> Done

\* every call of a voice request failed, and the request has returned
C23_Witness ==
    /\ Done /\ Len(calls) = 6
    /\ \A i \in DOMAIN replies : Failed(replies[i])
    /\ returned.status = "success"

SpeechTexts == { calls[i].arg.text : i \in { j \in DOMAIN calls : calls[j].op \in {"tts", "tts_fallback"} } }

\* C24: no call is retried: within one request each of speech-to-text,
\* market data, news, earnings, retrieval and synthesis is attempted at most
\* once, a failed call is never issued again, and text-to-speech is attempted
\* at most once per text: once for the synthesized text and, only when the
\* confidence is below 0.70, once more for the clarification message.
C24_NoRetry ==
    /\ \A op \in Ops : Count(op) <= 1
    /\ \A i, j \in DOMAIN calls : i # j => calls[i] # calls[j]
    /\ \A i \in DOMAIN replies : \A j \in DOMAIN calls :
          (Failed(replies[i]) /\ j > i) => calls[j].op # replies[i].op
    /\ \A i \in DOMAIN calls :
          /\ calls[i].op = "tts" => calls[i].arg.text = synthesis_response.dict.response
          /\ calls[i].op = "tts_fallback" =>
                /\ calls[i].arg.text = JStr(FallbackMsg)
                /\ Called("tts") /\ confidence.num < 70
    /\ Cardinality(SpeechTexts) = Count("tts") + Count("tts_fallback")

\* a request in which the market call and the first text-to-speech call
\* failed: neither was attempted again, and the clarification was spoken
C24_Witness ==
    /\ Done /\ FailedCall("market") /\ FailedCall("tts")
    /\ Count("market") = 1 /\ Count("tts") = 1 /\ Count("tts_fallback") = 1

\* C25: in every response returned for a voice-mode request, a non-null
\* audio handle is the result of a text-to-speech call whose input text is
\* exactly the returned response text: the synthesized text when the
\* confidence is at least 0.70, the clarification message below; a handle
\* generated from a text that is not shown is never returned.
C25_AudioMatchesText ==
    (Done /\ request.mode = "voice" /\ returned.audio_file # JNull) =>
        /\ returned.response = IF returned.confidence >= 70
                               THEN synthesis_response.dict.response.str
                               ELSE FallbackMsg
        /\ \E i \in DOMAIN calls :
              /\ calls[i].op \in {"tts", "tts_fallback"}
              /\ calls[i].arg.text = JStr(returned.response)
              /\ WellFormed(replies[i])
              /\ replies[i].body.dict.audio_file = returned.audio_file
        /\ \A i \in DOMAIN calls :
              (calls[i].op \in {"tts", "tts_fallback"}
                 /\ calls[i].arg.text # JStr(returned.response)) =>
                 (WellFormed(replies[i]) =>
                     replies[i].body.dict.audio_file # returned.audio_file)

\* the answer was spoken, then the clarification: the handle returned with
\* the clarification message is the one of the second call
C25_Witness ==
    /\ Done /\ request.mode = "voice"
    /\ \E i \in DOMAIN replies : replies[i].op = "tts" /\ WellFormed(replies[i])
    /\ returned.response = FallbackMsg
    /\ returned.audio_file = JStr("fallback.mp3")

TextMode == pc # "idle" /\ request.mode = "text"

\* C26: in text mode the voice collaborator is never called, neither for
\* speech-to-text nor for text-to-speech, the query text used by every step
\* is the request's query field unchanged, and the audio handle returned is
\* null, even when the request supplied an audio handle.
C26_TextModeSilent ==
    TextMode =>
        /\ \A i \in DOMAIN calls : calls[i].op \notin {"stt", "tts", "tts_fallback"}
        /\ query_text = JStr(request.query)
        /\ \A i \in QueryCalls : calls[i].arg.query = JStr(request.query)
        /\ Called("retrieve") =>
              /\ Called("news") <=> is_news_query(request.query)
              /\ Called("earnings") <=> is_earnings_query(request.query)
        /\ audio_file = JNull
        /\ Done => returned.audio_file = JNull

\* a text request that carried an audio handle, answered without audio
C26_Witness ==
    /\ TextMode /\ Succeeded /\ request.audio_file = JStr("in.wav")
    /\ request.query = Q_both /\ Called("news") /\ Called("earnings")
    /\ returned.audio_file = JNull /\ returned.confidence >= 70

SpeechToTextRefused ==
    \E i \in DOMAIN replies :
        replies[i].op = "stt" /\ replies[i].kind = "http" /\ replies[i].status # 200
ErrorProcessingVoiceInput ==
    <<"E","r","r","o","r"," ","p","r","o","c","e","s","s","i","n","g"," ",
      "v","o","i","c","e"," ","i","n","p","u","t">>

\* C27: when speech-to-text replies with a non-200 status, the substituted
\* query text "Error processing voice input" matches no news keyword and no
\* earnings keyword: neither the news nor the earnings collaborator is
\* called, the fused context contains only the retrieved chunks, and the
\* confidence is never boosted.
C27_VoiceErrorTextUnclassified ==
    SpeechToTextRefused =>
        /\ query_text = JStr(ErrorProcessingVoiceInput)
        /\ ~Mentions(query_text.str, SpecNewsWords)
        /\ ~Mentions(query_text.str, SpecEarningsWords)
        /\ ~Called("news") /\ ~Called("earnings")
        /\ \A i \in DOMAIN calls :
              calls[i].op = "synthesize" =>
                 calls[i].arg.context_chunks = ListOf(context_chunks)
        /\ \A i \in DOMAIN replies :
              HasBase(replies[i]) =>
                 /\ synthesis_response = replies[i].body
                 /\ Succeeded => returned.confidence = BaseOf(replies[i])

\* speech-to-text answered 500; two chunks were retrieved and a base
\* confidence of 0.60 was returned as it was
C27_Witness ==
    /\ SpeechToTextRefused /\ Succeeded
    /\ Len(ListOf(context_chunks)) = 2
    /\ returned.confidence = 60 /\ returned.response = FallbackMsg

SynthesisSucceeded ==
    Done /\ \E i \in DOMAIN replies : SynthesisReply(replies[i]) /\ ~Failed(replies[i])
Retrieved == Len(ListOf(context_chunks)) + Len(ListOf(market_data))

\* C28: composed with the repository's language agent, whose confidence is
\* min(0.9, 0.5 + 0.1 * len(context_chunks) + 0.1 * len(market_data)):
\* whenever the synthesis call succeeds and the news or the earnings list is
\* non-empty, the confidence returned is at least 0.70 and the clarification
\* is not shown; with both lists empty and a successful synthesis the
\* clarification is shown exactly when len(retrieved chunks) +
\* len(market data) <= 1.
C28_ComposedConfidence ==
    SynthesisSucceeded =>
        IF Scraped
        THEN returned.confidence >= 70 /\ returned.response # FallbackMsg
        ELSE returned.response = FallbackMsg <=> Retrieved <= 1

\* a 200 reply of text-to-speech whose audio handle is not a string
SpeechIllTyped ==
    \E i \in DOMAIN replies :
        /\ replies[i].op \in {"tts", "tts_fallback"} /\ ~Failed(replies[i])
        /\ HasField(replies[i], "audio_file") /\ ~IsStr(replies[i].body.dict.audio_file)

\* C28, amended: composed with the repository's language agent, whenever the
\* synthesis call succeeds the response has status "success" unless a 200
\* text-to-speech reply carried an ill-typed audio handle (then status
\* "error", confidence 0.0); in the status "success" responses, with a
\* non-empty news or earnings list the confidence is at least 0.70 and the
\* clarification is not shown, and with both lists empty the clarification
\* is shown exactly when len(retrieved chunks) + len(market data) <= 1.
C28_ComposedConfidenceOnSuccess ==
    SynthesisSucceeded =>
        /\ returned.status = "error" =>
              SpeechIllTyped /\ request.mode = "voice" /\ returned.confidence = 0
        /\ returned.status = "success" =>
              IF Scraped
              THEN returned.confidence >= 70 /\ returned.response # FallbackMsg
              ELSE returned.response = FallbackMsg <=> Retrieved <= 1

\* one scraped item and nothing else: the agent's 0.60 is boosted to 0.70
\* and the answer is shown
C28_Witness ==
    /\ SynthesisSucceeded /\ Scraped /\ Retrieved = 0
    /\ returned.confidence = 70 /\ returned.response = "answer"

\* the speech-to-text step raised: the audio file could not be opened, the
\* call ended in a network error or timeout, or its 200 reply had no text
SpeechToTextRaised ==
    /\ request.mode = "voice" /\ Truthy(request.audio_file)
    /\ \/ calls = << >>
       \/ \E i \in DOMAIN replies :
             /\ replies[i].op = "stt"
             /\ \/ replies[i].kind = "neterr"
                \/ ~Failed(replies[i]) /\ ~HasField(replies[i], "text")
SynthesisFieldMissing ==
    \E i \in DOMAIN replies :
        /\ SynthesisReply(replies[i]) /\ ~Failed(replies[i])
        /\ ~HasField(replies[i], "response") \/ ~HasField(replies[i], "confidence")

\* C30: status "error" is reachable only through two causes: an exception
\* raised by the speech-to-text step, or a 200 synthesis reply that lacks a
\* required field; failures of the market, news, earnings, retrieval and
\* text-to-speech calls, malformed 200 payloads included, never produce it.
C30_ErrorCauses ==
    (Done /\ returned.status = "error") => SpeechToTextRaised \/ SynthesisFieldMissing

\* the synthesis call was answered 200 with a body that has every required
\* field but the one named
SynthesisLacks(field) ==
    \E i \in DOMAIN replies :
        /\ SynthesisReply(replies[i]) /\ ~Failed(replies[i]) /\ IsDict(replies[i].body)
        /\ DOMAIN replies[i].body.dict = {"response", "confidence"} \ {field}

\* C29 as stated: a 200 synthesis reply that lacks the confidence field
\* gives, when the news or the earnings list is non-empty, a confidence of
\* 0.5 boosted to 0.6, status "success" and the clarification text, and when
\* both lists are empty status "error" with confidence 0.0; a 200 synthesis
\* reply that lacks the response field always gives status "error".
C29_MissingFields ==
    /\ (Done /\ SynthesisLacks("confidence")) =>
          IF Scraped
          THEN /\ synthesis_response.dict.confidence = JNum(60)
               /\ returned.status = "success"
               /\ returned.confidence = 60 /\ returned.response = FallbackMsg
          ELSE returned.status = "error" /\ returned.confidence = 0
    /\ (Done /\ SynthesisLacks("response")) => returned.status = "error"

\* C29, amended: as stated, except that with a non-empty list the status is
\* "success" (confidence 0.6, clarification text) unless, in voice mode, a
\* 200 text-to-speech reply carried an ill-typed audio handle, which gives
\* status "error" with confidence 0.0.
C29_MissingFieldsSpoken ==
    /\ (Done /\ SynthesisLacks("confidence")) =>
          IF Scraped
          THEN /\ synthesis_response.dict.confidence = JNum(60)
               /\ returned.status = "success" =>
                     returned.confidence = 60 /\ returned.response = FallbackMsg
               /\ returned.status = "error" =>
                     SpeechIllTyped /\ request.mode = "voice" /\ returned.confidence = 0
          ELSE returned.status = "error" /\ returned.confidence = 0
    /\ (Done /\ SynthesisLacks("response")) => returned.status = "error"

\* news were scraped and the reply had no confidence: 0.6 and the
\* clarification, with status "success"
C29_Witness ==
    /\ Done /\ SynthesisLacks("confidence") /\ Len(ListOf(news_data)) > 0
    /\ returned = [response |-> FallbackMsg, confidence |-> 60,
                   audio_file |-> JNull, status |-> "success"]

\* a 200 reply of speech-to-text, synthesis or text-to-speech in which a
\* field the response is built from has the wrong type
FieldIllTyped ==
    \/ \E i \in DOMAIN replies :
          /\ replies[i].op = "stt" /\ ~Failed(replies[i])
          /\ HasField(replies[i], "text") /\ ~IsStr(replies[i].body.dict.text)
    \/ \E i \in DOMAIN replies :
          /\ SynthesisReply(replies[i]) /\ ~Failed(replies[i])
          /\ \/ HasField(replies[i], "response") /\ ~IsStr(replies[i].body.dict.response)
             \/ HasField(replies[i], "confidence") /\ ~IsNum(replies[i].body.dict.confidence)
    \/ SpeechIllTyped

\* C30, amended: status "error" is reachable only through an exception
\* raised by the speech-to-text step, a 200 synthesis reply that lacks a
\* required field, or a 200 reply of speech-to-text, synthesis or
\* text-to-speech with an ill-typed field; failures of the market, news,
\* earnings and retrieval calls, malformed 200 payloads included, and failed
\* text-to-speech calls never produce it.
C30_ErrorCausesTyped ==
    (Done /\ returned.status = "error") =>
        SpeechToTextRaised \/ SynthesisFieldMissing \/ FieldIllTyped

\* status "error" with a complete, well-typed synthesis reply and no
\* speech-to-text exception: the audio handle of text-to-speech was ill-typed,
\* while the market call had failed without effect on the status
C30_Witness ==
    /\ Done /\ returned.status = "error"
    /\ ~SpeechToTextRaised /\ ~SynthesisFieldMissing /\ SpeechIllTyped
    /\ \E i \in DOMAIN replies : replies[i].op = "market" /\ Failed(replies[i])

====
